---- MODULE Spec2Model ----
(***************************************************************************)
(* Model of the start-block script (src/main.go).                          *)
(*                                                                         *)
(* src/main.go holds two revisions of the program one after the other:     *)
(* lines 1-239 (the earlier main) and lines 241-490 (the hardened main:    *)
(* a missing .env is tolerated, config.json is not renamed, "farcaster"    *)
(* is written, the final write is retried).  The two search functions are  *)
(* identical in both.  The variable hardened says which main runs.         *)
(*                                                                         *)
(* int64 is modelled at a reduced width of WordBits bits (two's            *)
(* complement), big.Int as an unbounded integer.  Values a chain reports   *)
(* may lie outside the int64 range; the target timestamp is an int64.      *)
(***************************************************************************)
EXTENDS Integers, Sequences, FiniteSets, TLC

VARIABLES
  hardened,          \* TRUE: main of lines 335-490; FALSE: main of lines 95-239
  pc,                \* position of the single thread of control
  panicAt,           \* "" or the place of a run-time panic
  targetTimestamp,   \* targetTimestamp (int64)
  disk,              \* contents of config.json
  diskOld,           \* contents of config.json.old
  loaded,            \* the document json.Unmarshal was given (history)
  config,            \* config.NetworkStartBlock, the in-memory map
  idx,               \* index of the network the loop is at
  url,               \* network.URL of the current network
  chain,             \* the ledger behind the current endpoint: head and timestamps
  low, high,         \* the search interval
  fetched,           \* block fetches issued by the current search, in order
  headCalls,         \* head-height fetches issued by the current search
  ret,               \* what the search function returned
  closestBlockInt64, \* main's closestBlockInt64
  found,             \* per network: the height its search returned (history)
  outcome,           \* per network: "pending", "ok" or "failed" (history)
  writes,            \* results of the os.WriteFile attempts, in order
  sleeps,            \* number of time.Sleep(time.Second) calls
  printed            \* "Config file updated successfully." was printed

vars == << hardened, pc, panicAt, targetTimestamp, disk, diskOld, loaded, config,
           idx, url, chain, low, high, fetched, headCalls, ret, closestBlockInt64,
           found, outcome, writes, sleeps, printed >>

(***************************************************************************)
(* Bounds                                                                  *)
(***************************************************************************)
WordBits == 5        \* modelled width of int64
MaxWriteRetries == 3 \* for i := 0; i < 3; i++
MaxHead == 4         \* largest head height of an enumerated ledger (search alone)
MainMaxHead == 2     \* largest head height of an enumerated ledger (whole run)
MaxTarget == 2       \* targets are 1..MaxTarget

(***************************************************************************)
(* Integers                                                                *)
(***************************************************************************)
Pow2(n) == 2 ^ n

MinInt64 == -Pow2(WordBits - 1)
MaxInt64 == Pow2(WordBits - 1) - 1
FitsInt64(x) == MinInt64 <= x /\ x <= MaxInt64

\* (*big.Int).Int64 of a non-negative x: the low bits, read as a signed word.
Int64(x) ==
  LET m == x % Pow2(WordBits)
  IN  IF m >= Pow2(WordBits - 1) THEN m - Pow2(WordBits) ELSE m

\* Go's / on integers truncates toward zero.
GoDiv(a, b) == IF a >= 0 THEN a \div b ELSE -((-a) \div b)

\* A scan from the low end instead of a bisection.
C7_MidpointAtLow(l, h) == l

\* mid := (low + high) / 2 on big.Int
Midpoint(l, h) == GoDiv(l + h, 2)

\* mid := (low + high) / 2 on int64
MidpointInt64(l, h) == GoDiv(Int64(l + h), 2)

\* low = mid, which does not pass the probed height.
C10_NarrowLowNoStep(m) == m

\* low = mid + 1
NarrowLow(m) == m + 1

\* high = mid - 1
NarrowHigh(m) == m - 1

\* return high, nil: the last height below the target.
C2_ExitAtHigh(l, h) == h

\* return low, nil
ExitHeight(l, h) == l

(***************************************************************************)
(* Ledgers: what an endpoint serves                                        *)
(***************************************************************************)
Targets == 1 .. MaxTarget

\* Timestamps around the targets, one that has the sign bit of an int64 set
\* and one that is a target plus 2^WordBits.
TsValues == (0 .. (MaxTarget + 1)) \cup { Pow2(WordBits - 1), Pow2(WordBits) + 1 }

LedgersUpTo(n) ==
  UNION { { [head |-> h, ts |-> t] : t \in [1 .. h -> TsValues] } : h \in 0 .. n }

Monotone(c) ==
  \A i \in 1 .. c.head : \A j \in 1 .. c.head : i <= j => c.ts[i] <= c.ts[j]

\* A chain whose heights pass the int64 range: the first height at or above
\* every target is 2^(WordBits-1).
TallHead == Pow2(WordBits - 1) + 1
TallLedger ==
  [head |-> TallHead,
   ts   |-> [h \in 1 .. TallHead |->
               IF h < Pow2(WordBits - 1) THEN 0 ELSE MaxTarget + 1]]

\* A chain whose head is the largest int64 and whose timestamps are all
\* below every target: low + high leaves the int64 range at the first step.
EdgeLedger == [head |-> MaxInt64, ts |-> [h \in 1 .. MaxInt64 |-> 0]]

SearchLedgers == LedgersUpTo(MaxHead) \cup { TallLedger, EdgeLedger }
MainLedgers ==
  { c \in LedgersUpTo(MainMaxHead) : Monotone(c) } \cup { TallLedger, EdgeLedger }

NoChain == [head |-> 0, ts |-> << >>]

Exists(c, h) == h \in 1 .. c.head

(***************************************************************************)
(* The networks table and the config document                              *)
(***************************************************************************)
Networks ==
  << [Name |-> "ethereum", Type |-> "ethereum"],
     [Name |-> "polygon",  Type |-> "ethereum"],
     [Name |-> "arweave",  Type |-> "arweave"] >>

NetIdx == 1 .. Len(Networks)

FarcasterOffset == 9 * 30 * 24 * 60 * 60

EmptyMap == [k \in {} |-> 0]

MapSet(m, k, v) == [x \in (DOMAIN m) \cup {k} |-> IF x = k THEN v ELSE m[x]]

NoDoc == [kind |-> "absent", nsbNil |-> TRUE, nsb |-> EmptyMap, extra |-> {}]
BadDoc == [kind |-> "malformed", nsbNil |-> TRUE, nsb |-> EmptyMap, extra |-> {}]
Doc(isNil, m, x) == [kind |-> "doc", nsbNil |-> isNil, nsb |-> m, extra |-> x]

InitialDocs ==
  { Doc(TRUE, EmptyMap, {}),
    Doc(FALSE, EmptyMap, {}),
    Doc(FALSE, [k \in {"ethereum", "farcaster", "solana"} |->
                  IF k = "ethereum" THEN 7 ELSE IF k = "farcaster" THEN 8 ELSE 9],
        {"version"}) }

InitialDisks == InitialDocs \cup { NoDoc, BadDoc }

\* json.Unmarshal into Config: only network_start_block is kept.
Unmarshal(d) == [nil |-> d.nsbNil, m |-> d.nsb]

\* json.MarshalIndent of Config: only network_start_block is written.
Marshal(c) == Doc(c.nil, c.m, {})

NilConfig == [nil |-> TRUE, m |-> EmptyMap]

(***************************************************************************)
(* Return values of the search functions                                   *)
(***************************************************************************)
NoRet == [height |-> 0, isNil |-> TRUE, err |-> "", at |-> 0]
RetHeight(h) == [height |-> h, isNil |-> FALSE, err |-> "", at |-> 0]

\* return nil/0, fmt.Errorf("error getting block %s: %v", mid, err)
BlockErr(isNil, m) == [height |-> 0, isNil |-> isNil, err |-> "block", at |-> m]

\* return nil/0, fmt.Errorf("error getting latest block ...: %v", err)
HeadErr(isNil) == [height |-> 0, isNil |-> isNil, err |-> "head", at |-> 0]

(***************************************************************************)
(* Initial states                                                          *)
(***************************************************************************)
Locals ==
  /\ low = 1
  /\ high = 0
  /\ fetched = << >>
  /\ headCalls = 0
  /\ ret = NoRet
  /\ closestBlockInt64 = 0

\* The state main starts in: config.json holds any of the initial documents.
Init ==
  /\ hardened \in BOOLEAN
  /\ pc = "start"
  /\ panicAt = ""
  /\ targetTimestamp \in Targets
  /\ disk \in InitialDisks
  /\ diskOld = NoDoc
  /\ loaded = NoDoc
  /\ config = NilConfig
  /\ idx = 1
  /\ url = ""
  /\ chain = NoChain
  /\ Locals
  /\ found = [i \in NetIdx |-> 0]
  /\ outcome = [i \in NetIdx |-> "pending"]
  /\ writes = << >>
  /\ sleeps = 0
  /\ printed = FALSE

\* A call of findClosestBlockRPC or findClosestBlockArweave on its own, with
\* any client and any target.
SearchInit ==
  /\ hardened = TRUE
  /\ pc \in {"rpc_head", "ar_head"}
  /\ panicAt = ""
  /\ targetTimestamp \in Targets
  /\ disk = NoDoc
  /\ diskOld = NoDoc
  /\ loaded = NoDoc
  /\ config = NilConfig
  /\ idx = 1
  /\ url = "u"
  /\ chain \in SearchLedgers
  /\ Locals
  /\ found = [i \in NetIdx |-> 0]
  /\ outcome = [i \in NetIdx |-> "pending"]
  /\ writes = << >>
  /\ sleeps = 0
  /\ printed = FALSE

mainVars == << hardened, targetTimestamp, disk, diskOld, loaded, config, idx, url,
               chain, closestBlockInt64, found, outcome, writes, sleeps, printed >>

(***************************************************************************)
(* findClosestBlockRPC                                                     *)
(***************************************************************************)
\* eth_blockNumber succeeds: high is the head, low is 1.
RPC_GetHead ==
  /\ pc = "rpc_head"
  /\ headCalls' = headCalls + 1
  /\ high' = chain.head
  /\ low' = 1
  /\ pc' = "rpc_loop"
  /\ UNCHANGED << mainVars, panicAt, fetched, ret >>

\* eth_blockNumber fails.
RPC_GetHeadErr ==
  /\ pc = "rpc_head"
  /\ headCalls' = headCalls + 1
  /\ ret' = HeadErr(TRUE)
  /\ pc' = "rpc_ret"
  /\ UNCHANGED << mainVars, panicAt, low, high, fetched >>

\* A failed fetch that is tried again instead of returned.
C3_RPC_ProbeErrRetries ==
  /\ pc = "rpc_loop"
  /\ low <= high
  /\ Len(fetched) < MaxHead + 2
  /\ fetched' = Append(fetched, [h |-> Midpoint(low, high), ok |-> FALSE])
  /\ UNCHANGED << mainVars, panicAt, low, high, headCalls, ret, pc >>

\* eth_getBlockByNumber(mid) returns an error.
RPC_ProbeErr ==
  /\ pc = "rpc_loop"
  /\ low <= high
  /\ LET mid == Midpoint(low, high)
     IN  /\ fetched' = Append(fetched, [h |-> mid, ok |-> FALSE])
         /\ ret' = BlockErr(TRUE, mid)
  /\ pc' = "rpc_ret"
  /\ UNCHANGED << mainVars, panicAt, low, high, headCalls >>

\* eth_getBlockByNumber(mid) returns no error and no decodable timestamp (a
\* null block, or a missing or malformed field): hexutil.DecodeBig returns
\* nil and its error is dropped, blockTimestamp.Int64() dereferences nil.
RPC_ProbeEmpty ==
  /\ pc = "rpc_loop"
  /\ low <= high
  /\ fetched' = Append(fetched, [h |-> Midpoint(low, high), ok |-> TRUE])
  /\ pc' = "panic"
  /\ panicAt' = "probe"
  /\ UNCHANGED << mainVars, low, high, headCalls, ret >>

\* eth_getBlockByNumber(mid) returns the block.
RPC_ProbeOk ==
  /\ pc = "rpc_loop"
  /\ low <= high
  /\ LET mid == Midpoint(low, high)
         t   == Int64(chain.ts[mid])
     IN  /\ Exists(chain, mid)
         /\ fetched' = Append(fetched, [h |-> mid, ok |-> TRUE])
         /\ IF t = targetTimestamp
              THEN /\ ret' = RetHeight(mid)
                   /\ pc' = "rpc_ret"
                   /\ UNCHANGED << low, high >>
              ELSE IF t < targetTimestamp
                     THEN /\ low' = NarrowLow(mid)
                          /\ UNCHANGED << high, ret, pc >>
                     ELSE /\ high' = NarrowHigh(mid)
                          /\ UNCHANGED << low, ret, pc >>
  /\ UNCHANGED << mainVars, panicAt, headCalls >>

\* low > high: return low.
RPC_Exit ==
  /\ pc = "rpc_loop"
  /\ low > high
  /\ ret' = RetHeight(ExitHeight(low, high))
  /\ pc' = "rpc_ret"
  /\ UNCHANGED << mainVars, panicAt, low, high, fetched, headCalls >>

(***************************************************************************)
(* findClosestBlockArweave: the same search on int64                       *)
(***************************************************************************)
\* The gateway answers only when an endpoint is set, and an answer decodes
\* into an int64 only when it fits one.
AR_GetHead ==
  /\ pc = "ar_head"
  /\ url # ""
  /\ FitsInt64(chain.head)
  /\ headCalls' = headCalls + 1
  /\ high' = chain.head
  /\ low' = 1
  /\ pc' = "ar_loop"
  /\ UNCHANGED << mainVars, panicAt, fetched, ret >>

AR_GetHeadErr ==
  /\ pc = "ar_head"
  /\ headCalls' = headCalls + 1
  /\ ret' = HeadErr(FALSE)
  /\ pc' = "ar_ret"
  /\ UNCHANGED << mainVars, panicAt, low, high, fetched >>

AR_ProbeErr ==
  /\ pc = "ar_loop"
  /\ low <= high
  /\ LET mid == MidpointInt64(low, high)
     IN  /\ fetched' = Append(fetched, [h |-> mid, ok |-> FALSE])
         /\ ret' = BlockErr(FALSE, mid)
  /\ pc' = "ar_ret"
  /\ UNCHANGED << mainVars, panicAt, low, high, headCalls >>

AR_ProbeOk ==
  /\ pc = "ar_loop"
  /\ low <= high
  /\ LET mid == MidpointInt64(low, high)
     IN  /\ Exists(chain, mid)
         /\ FitsInt64(chain.ts[mid])
         /\ fetched' = Append(fetched, [h |-> mid, ok |-> TRUE])
         /\ IF chain.ts[mid] = targetTimestamp
              THEN /\ ret' = RetHeight(mid)
                   /\ pc' = "ar_ret"
                   /\ UNCHANGED << low, high >>
              ELSE IF chain.ts[mid] < targetTimestamp
                     THEN /\ low' = Int64(NarrowLow(mid))
                          /\ UNCHANGED << high, ret, pc >>
                     ELSE /\ high' = Int64(NarrowHigh(mid))
                          /\ UNCHANGED << low, ret, pc >>
  /\ UNCHANGED << mainVars, panicAt, headCalls >>

AR_Exit ==
  /\ pc = "ar_loop"
  /\ low > high
  /\ ret' = RetHeight(ExitHeight(low, high))
  /\ pc' = "ar_ret"
  /\ UNCHANGED << mainVars, panicAt, low, high, fetched, headCalls >>

SearchNext ==
  \/ RPC_GetHead
  \/ RPC_GetHeadErr
  \/ RPC_ProbeErr
  \/ RPC_ProbeEmpty
  \/ RPC_ProbeOk
  \/ RPC_Exit
  \/ AR_GetHead
  \/ AR_GetHeadErr
  \/ AR_ProbeErr
  \/ AR_ProbeOk
  \/ AR_Exit

SearchSpec == SearchInit /\ [][SearchNext]_vars

(***************************************************************************)
(* main                                                                    *)
(***************************************************************************)
ResetLocals ==
  /\ low' = 1
  /\ high' = 0
  /\ fetched' = << >>
  /\ headCalls' = 0
  /\ ret' = NoRet
  /\ closestBlockInt64' = 0
  /\ url' = ""
  /\ chain' = NoChain

Name == Networks[idx].Name

\* A failure branch without its continue: the zero closestBlockInt64 is
\* stored.
C4_ContinueFallsThrough ==
  /\ outcome' = [outcome EXCEPT ![idx] = "failed"]
  /\ config' = IF config.nil THEN config
               ELSE [config EXCEPT !.m = MapSet(config.m, Name, closestBlockInt64)]
  /\ idx' = idx + 1
  /\ pc' = "loop"
  /\ ResetLocals
  /\ UNCHANGED << hardened, panicAt, targetTimestamp, disk, diskOld, loaded,
                  found, writes, sleeps, printed >>

\* log.Printf(...); fmt.Println(); continue
Continue ==
  /\ outcome' = [outcome EXCEPT ![idx] = "failed"]
  /\ idx' = idx + 1
  /\ pc' = "loop"
  /\ ResetLocals
  /\ UNCHANGED << hardened, panicAt, targetTimestamp, disk, diskOld, loaded, config,
                  found, writes, sleeps, printed >>

searchVars == << low, high, fetched, headCalls, ret >>

\* godotenv.Load(): fatal in the earlier main, logged in the hardened one.
LoadEnv ==
  /\ pc = "start"
  /\ \E ok \in BOOLEAN :
       pc' = IF ok \/ hardened THEN "read" ELSE "fatal_env"
  /\ UNCHANGED << mainVars, searchVars, panicAt >>

\* os.ReadFile and json.Unmarshal: a missing, unreadable or unparsable
\* document is fatal.
ReadConfig ==
  /\ pc = "read"
  /\ \E readOk \in BOOLEAN :
       IF readOk /\ disk.kind = "doc"
         THEN /\ loaded' = disk
              /\ config' = Unmarshal(disk)
              /\ pc' = IF hardened THEN "loop" ELSE "rename"
         ELSE /\ pc' = "fatal_config"
              /\ UNCHANGED << loaded, config >>
  /\ UNCHANGED << hardened, panicAt, targetTimestamp, disk, diskOld, idx, url, chain,
                  searchVars, closestBlockInt64, found, outcome, writes, sleeps,
                  printed >>

\* os.Rename("config.json", "config.json.old") (earlier main only).
RenameConfig ==
  /\ pc = "rename"
  /\ \E ok \in BOOLEAN :
       IF ok
         THEN /\ diskOld' = disk
              /\ disk' = NoDoc
              /\ pc' = "loop"
         ELSE /\ pc' = "fatal_rename"
              /\ UNCHANGED << disk, diskOld >>
  /\ UNCHANGED << hardened, panicAt, targetTimestamp, loaded, config, idx, url, chain,
                  searchVars, closestBlockInt64, found, outcome, writes, sleeps,
                  printed >>

\* for _, network := range networks: the next network, its endpoint read
\* from the environment (unset: "").
LoopNext ==
  /\ pc = "loop"
  /\ idx <= Len(Networks)
  /\ url' \in {"", "u"}
  /\ pc' = IF Networks[idx].Type = "ethereum" THEN "dial" ELSE "ar_new"
  /\ UNCHANGED << hardened, panicAt, targetTimestamp, disk, diskOld, loaded, config,
                  idx, chain, searchVars, closestBlockInt64, found, outcome, writes,
                  sleeps, printed >>

\* The range is exhausted.
LoopEnd ==
  /\ pc = "loop"
  /\ idx > Len(Networks)
  /\ pc' = IF hardened THEN "farcaster" ELSE "write"
  /\ UNCHANGED << mainVars, searchVars, panicAt >>

\* rpc.Dial(network.URL): an empty URL never connects.
DialOk ==
  /\ pc = "dial"
  /\ url # ""
  /\ pc' = "live"
  /\ UNCHANGED << mainVars, searchVars, panicAt >>

DialErr ==
  /\ pc = "dial"
  /\ Continue

\* eth_getBlockByNumber("latest"): the endpoint answers; chain is what it serves.
LiveOk ==
  /\ pc = "live"
  /\ chain' \in MainLedgers
  /\ pc' = "rpc_head"
  /\ UNCHANGED << hardened, panicAt, targetTimestamp, disk, diskOld, loaded, config,
                  idx, url, searchVars, closestBlockInt64, found, outcome, writes,
                  sleeps, printed >>

LiveErr ==
  /\ pc = "live"
  /\ Continue

\* closestBlock, err := findClosestBlockRPC(...); err != nil
RPC_SearchFailed ==
  /\ pc = "rpc_ret"
  /\ ret.err # ""
  /\ Continue

RPC_SearchDone ==
  /\ pc = "rpc_ret"
  /\ ret.err = ""
  /\ found' = [found EXCEPT ![idx] = ret.height]
  /\ pc' = "rpc_details"
  /\ UNCHANGED << hardened, panicAt, targetTimestamp, disk, diskOld, loaded, config,
                  idx, url, chain, searchVars, closestBlockInt64, outcome, writes,
                  sleeps, printed >>

\* eth_getBlockByNumber(closestBlock) fails.
RPC_DetailsErr ==
  /\ pc = "rpc_details"
  /\ Continue

\* It returns no error and no decodable timestamp (as for a height past the
\* head): blockTimestamp is nil and blockTimestamp.Int64() panics.
RPC_DetailsEmpty ==
  /\ pc = "rpc_details"
  /\ pc' = "panic"
  /\ panicAt' = "details"
  /\ UNCHANGED << mainVars, searchVars >>

\* It returns the block: closestBlockInt64 = closestBlock.Int64().
RPC_DetailsOk ==
  /\ pc = "rpc_details"
  /\ Exists(chain, ret.height)
  /\ closestBlockInt64' = Int64(ret.height)
  /\ pc' = "update"
  /\ UNCHANGED << hardened, panicAt, targetTimestamp, disk, diskOld, loaded, config,
                  idx, url, chain, searchVars, found, outcome, writes, sleeps,
                  printed >>

\* arweave.NewClient(arweave.WithGateways([]string{network.URL}))
AR_NewClientOk ==
  /\ pc = "ar_new"
  /\ chain' \in IF url = "" THEN { NoChain } ELSE MainLedgers
  /\ pc' = "ar_head"
  /\ UNCHANGED << hardened, panicAt, targetTimestamp, disk, diskOld, loaded, config,
                  idx, url, searchVars, closestBlockInt64, found, outcome, writes,
                  sleeps, printed >>

AR_NewClientErr ==
  /\ pc = "ar_new"
  /\ Continue

AR_SearchFailed ==
  /\ pc = "ar_ret"
  /\ ret.err # ""
  /\ Continue

AR_SearchDone ==
  /\ pc = "ar_ret"
  /\ ret.err = ""
  /\ found' = [found EXCEPT ![idx] = ret.height]
  /\ pc' = "ar_details"
  /\ UNCHANGED << hardened, panicAt, targetTimestamp, disk, diskOld, loaded, config,
                  idx, url, chain, searchVars, closestBlockInt64, outcome, writes,
                  sleeps, printed >>

\* arweaveClient.GetBlockByHeight(closestBlock) fails (always, for a height
\* the gateway does not have).
AR_DetailsErr ==
  /\ pc = "ar_details"
  /\ Continue

\* closestBlockInt64 = closestBlock
AR_DetailsOk ==
  /\ pc = "ar_details"
  /\ Exists(chain, ret.height)
  /\ FitsInt64(chain.ts[ret.height])
  /\ closestBlockInt64' = ret.height
  /\ pc' = "update"
  /\ UNCHANGED << hardened, panicAt, targetTimestamp, disk, diskOld, loaded, config,
                  idx, url, chain, searchVars, found, outcome, writes, sleeps,
                  printed >>

\* config.NetworkStartBlock[network.Name] = closestBlockInt64; an
\* assignment to an entry of a nil map panics.
Update ==
  /\ pc = "update"
  /\ IF config.nil
       THEN /\ pc' = "panic"
            /\ panicAt' = "nilmap"
            /\ UNCHANGED << mainVars, searchVars >>
       ELSE /\ config' = [config EXCEPT !.m = MapSet(config.m, Name, closestBlockInt64)]
            /\ outcome' = [outcome EXCEPT ![idx] = "ok"]
            /\ idx' = idx + 1
            /\ pc' = "loop"
            /\ ResetLocals
            /\ UNCHANGED << hardened, panicAt, targetTimestamp, disk, diskOld, loaded,
                            found, writes, sleeps, printed >>

\* config.NetworkStartBlock["farcaster"] = targetTimestamp - 9*30*24*60*60
\* (hardened main only).
Farcaster ==
  /\ pc = "farcaster"
  /\ IF config.nil
       THEN /\ pc' = "panic"
            /\ panicAt' = "nilmap"
            /\ UNCHANGED config
       ELSE /\ config' = [config EXCEPT
                            !.m = MapSet(config.m, "farcaster",
                                         targetTimestamp - FarcasterOffset)]
            /\ pc' = "write"
            /\ UNCHANGED panicAt
  /\ UNCHANGED << hardened, targetTimestamp, disk, diskOld, loaded, idx, url, chain,
                  searchVars, closestBlockInt64, found, outcome, writes, sleeps,
                  printed >>

\* What a failed os.WriteFile may leave behind: the file as it was, or a
\* truncated one.
AfterFailedWrite == { disk, BadDoc }

\* json.MarshalIndent and the first os.WriteFile.
WriteOk ==
  /\ pc = "write"
  /\ disk' = Marshal(config)
  /\ writes' = Append(writes, TRUE)
  /\ printed' = TRUE
  /\ pc' = "done"
  /\ UNCHANGED << hardened, panicAt, targetTimestamp, diskOld, loaded, config, idx,
                  url, chain, searchVars, closestBlockInt64, found, outcome, sleeps >>

\* A failed first write taken for a success.
C9_WriteErrIgnored ==
  /\ pc = "write"
  /\ disk' \in AfterFailedWrite
  /\ writes' = Append(writes, FALSE)
  /\ printed' = TRUE
  /\ pc' = "done"
  /\ UNCHANGED << hardened, panicAt, targetTimestamp, diskOld, loaded, config, idx,
                  url, chain, searchVars, closestBlockInt64, found, outcome, sleeps >>

\* The first write fails: fatal in the earlier main, the retry loop in the
\* hardened one.
WriteErr ==
  /\ pc = "write"
  /\ disk' \in AfterFailedWrite
  /\ writes' = Append(writes, FALSE)
  /\ pc' = IF hardened THEN "retry" ELSE "fatal_write"
  /\ UNCHANGED << hardened, panicAt, targetTimestamp, diskOld, loaded, config, idx,
                  url, chain, searchVars, closestBlockInt64, found, outcome, sleeps,
                  printed >>

\* The loop variable i of the retry loop.
RetryCount == Len(writes) - 1

\* time.Sleep(time.Second); os.WriteFile succeeds; break.
RetryOk ==
  /\ pc = "retry"
  /\ RetryCount < MaxWriteRetries
  /\ sleeps' = sleeps + 1
  /\ disk' = Marshal(config)
  /\ writes' = Append(writes, TRUE)
  /\ printed' = TRUE
  /\ pc' = "done"
  /\ UNCHANGED << hardened, panicAt, targetTimestamp, diskOld, loaded, config, idx,
                  url, chain, searchVars, closestBlockInt64, found, outcome >>

\* time.Sleep(time.Second); os.WriteFile fails again.
RetryErr ==
  /\ pc = "retry"
  /\ RetryCount < MaxWriteRetries
  /\ sleeps' = sleeps + 1
  /\ disk' \in AfterFailedWrite
  /\ writes' = Append(writes, FALSE)
  /\ UNCHANGED << hardened, pc, panicAt, targetTimestamp, diskOld, loaded, config, idx,
                  url, chain, searchVars, closestBlockInt64, found, outcome, printed >>

\* The loop ends with err != nil: log.Fatalf.
RetryExhausted ==
  /\ pc = "retry"
  /\ RetryCount >= MaxWriteRetries
  /\ pc' = "fatal_write"
  /\ UNCHANGED << mainVars, searchVars, panicAt >>

Next ==
  \/ LoadEnv
  \/ ReadConfig
  \/ RenameConfig
  \/ LoopNext
  \/ LoopEnd
  \/ DialOk
  \/ DialErr
  \/ LiveOk
  \/ LiveErr
  \/ RPC_GetHead
  \/ RPC_GetHeadErr
  \/ RPC_ProbeErr
  \/ RPC_ProbeEmpty
  \/ RPC_ProbeOk
  \/ RPC_Exit
  \/ RPC_SearchFailed
  \/ RPC_SearchDone
  \/ RPC_DetailsErr
  \/ RPC_DetailsEmpty
  \/ RPC_DetailsOk
  \/ AR_NewClientOk
  \/ AR_NewClientErr
  \/ AR_GetHead
  \/ AR_GetHeadErr
  \/ AR_ProbeErr
  \/ AR_ProbeOk
  \/ AR_Exit
  \/ AR_SearchFailed
  \/ AR_SearchDone
  \/ AR_DetailsErr
  \/ AR_DetailsOk
  \/ Update
  \/ Farcaster
  \/ WriteOk
  \/ WriteErr
  \/ RetryOk
  \/ RetryErr
  \/ RetryExhausted

Spec == Init /\ [][Next]_vars

(***************************************************************************)
(* Properties                                                              *)
(***************************************************************************)
SearchDone == pc \in {"rpc_ret", "ar_ret"}
InLoop == pc \in {"rpc_loop", "ar_loop"}
Heights == 1 .. chain.head
AllFetchesOk == ret.err = "" /\ \A i \in 1 .. Len(fetched) : fetched[i].ok

\* The least k with 2^k >= n.
CeilLog2(n) == CHOOSE k \in 0 .. n : Pow2(k) >= n /\ \A j \in 0 .. (k - 1) : Pow2(j) < n

\* The heights the locator may return for target T: any height whose
\* timestamp is T, or else the smallest height whose timestamp is >= T.
Answers(c, T) ==
  IF \E h \in 1 .. c.head : c.ts[h] = T
    THEN { h \in 1 .. c.head : c.ts[h] = T }
    ELSE { h \in 1 .. c.head : c.ts[h] >= T /\ \A g \in 1 .. (h - 1) : c.ts[g] < T }

\* C1: for a head H >= 1, monotone timestamps and a target that some height
\* reaches, with all fetches succeeding, both searches return a height whose
\* timestamp is the target if there is one, and otherwise the smallest height
\* whose timestamp is >= the target; 1 when the target is below height 1's.
C1_ClosestBlock ==
  ( /\ SearchDone
    /\ AllFetchesOk
    /\ chain.head >= 1
    /\ Monotone(chain)
    /\ \E h \in Heights : chain.ts[h] >= targetTimestamp )
  => /\ ret.height \in Answers(chain, targetTimestamp)
     /\ (targetTimestamp < chain.ts[1] => ret.height = 1)

\* C1 restricted to chains all of whose timestamps fit an int64.
C1_ClosestBlockInRange ==
  (\A h \in Heights : FitsInt64(chain.ts[h])) => C1_ClosestBlock

\* C2: for a head H >= 1 and monotone timestamps all below the target, with
\* all fetches succeeding, the search returns H+1 without error.
C2_PastHead ==
  ( /\ SearchDone
    /\ ret.err # "head"
    /\ \A i \in 1 .. Len(fetched) : fetched[i].ok
    /\ chain.head >= 1
    /\ Monotone(chain)
    /\ \A h \in Heights : chain.ts[h] < targetTimestamp )
  => /\ ret = RetHeight(chain.head + 1)
     /\ ret.height \notin Heights

C2_Witness ==
  /\ pc = "rpc_ret"
  /\ AllFetchesOk
  /\ chain.head = 4
  /\ Monotone(chain)
  /\ \A h \in Heights : chain.ts[h] < targetTimestamp
  /\ ret.height = 5

\* C3: a failed head fetch or a failed block fetch ends the search at once:
\* the failed fetch is the last one issued, it is issued once, the search
\* returns an error and no height, and the error names the height fetched.
C3_FetchFailureAborts ==
  /\ headCalls <= 1
  /\ \A i \in 1 .. Len(fetched) :
       ~fetched[i].ok =>
         /\ i = Len(fetched)
         /\ SearchDone
         /\ ret.err = "block"
         /\ ret.at = fetched[i].h
         /\ ret.height = 0
  /\ ret.err = "head" =>
       /\ SearchDone
       /\ fetched = << >>
       /\ headCalls = 1
       /\ ret.height = 0
  /\ ret.err = "block" => Len(fetched) >= 1 /\ ~fetched[Len(fetched)].ok

C3_Witness ==
  /\ pc = "ar_ret"
  /\ ret.err = "block"
  /\ Len(fetched) = 3
  /\ ret.at = fetched[3].h
  /\ fetched[1].ok /\ fetched[2].ok

\* The entry of network i is as in the loaded document.
EntryKept(i) ==
  LET n == Networks[i].Name
  IN  /\ n \in DOMAIN config.m <=> n \in DOMAIN loaded.nsb
      /\ n \in DOMAIN config.m => config.m[n] = loaded.nsb[n]

AfterLoop == pc \in {"farcaster", "write", "retry", "done", "fatal_write"}

\* C4: a network whose processing fails (dial, liveness check, search or
\* details fetch returns an error) keeps the config entry it had when the
\* document was loaded and the loop moves on to the next network; every
\* network is processed before the write, and a network that succeeds has
\* its entry set from its own search result alone (the int64 of the height
\* returned), whatever happened to the networks before it.
C4_FailedNetworkSkipped ==
  /\ \A i \in NetIdx :
       /\ outcome[i] = "failed" => idx > i /\ EntryKept(i)
       /\ outcome[i] = "ok" =>
            /\ Networks[i].Name \in DOMAIN config.m
            /\ config.m[Networks[i].Name] = Int64(found[i])
       /\ i < idx <=> outcome[i] # "pending"
  /\ AfterLoop => idx = Len(Networks) + 1

C4_Witness ==
  /\ pc = "done"
  /\ outcome = << "failed", "ok", "ok" >>
  /\ "ethereum" \in DOMAIN loaded.nsb
  /\ disk.kind = "doc"
  /\ disk.nsb["ethereum"] = 7

OkNames == { Networks[i].Name : i \in { j \in NetIdx : outcome[j] = "ok" } }
FoundOf(n) == found[CHOOSE i \in NetIdx : Networks[i].Name = n]

\* C5: after a run that completes, the document written back is the loaded
\* document with exactly the successfully processed networks set to their
\* computed heights; every other key, inside or outside
\* network_start_block, keeps its value.
C5_PassThrough ==
  pc = "done" =>
    /\ disk.kind = "doc"
    /\ disk.extra = loaded.extra
    /\ DOMAIN disk.nsb = (DOMAIN loaded.nsb) \cup OkNames
    /\ \A k \in DOMAIN disk.nsb :
         disk.nsb[k] = IF k \in OkNames THEN FoundOf(k) ELSE loaded.nsb[k]

\* C6: an EVM block response with no block or no decodable timestamp never
\* terminates the run, neither at a probed height nor in main's fetch of the
\* returned height.
C6_NoRunAbort == ~(pc = "panic" /\ panicAt \in {"probe", "details"})

\* C7: a search issues one head-height fetch, at most ceil(log2(H)) + 1
\* block fetches for a head H >= 1, and fetches no height twice.
C7_FetchBudget ==
  /\ headCalls = IF pc \in {"rpc_head", "ar_head"} THEN 0 ELSE 1
  /\ chain.head >= 1 => Len(fetched) <= CeilLog2(chain.head) + 1
  /\ \A i \in 1 .. Len(fetched) : \A j \in 1 .. Len(fetched) :
       fetched[i].h = fetched[j].h => i = j

C7_Witness ==
  /\ SearchDone
  /\ AllFetchesOk
  /\ Monotone(chain)
  /\ chain.head = 4
  /\ Len(fetched) = 3

\* C8: in the EVM path the comparison with the target uses the true
\* timestamp (a probed height left of the interval has a timestamp below the
\* target, one right of it a timestamp above, a height returned from inside
\* the interval the target itself), and the height recorded in the config
\* mapping is the height the search returned.
C8_FullPrecision ==
  /\ pc \in {"rpc_loop", "rpc_ret"} =>
       \A i \in 1 .. Len(fetched) :
         LET h == fetched[i].h
         IN  fetched[i].ok =>
               /\ h < low => chain.ts[h] < targetTimestamp
               /\ h > high => chain.ts[h] > targetTimestamp
               /\ (low <= h /\ h <= high) => chain.ts[h] = targetTimestamp
  /\ \A i \in NetIdx :
       (Networks[i].Type = "ethereum" /\ outcome[i] = "ok") =>
         config.m[Networks[i].Name] = found[i]

\* A failed final write is retried up to `retries` times, one sleep before
\* each retry; retrying stops at the first success; the success message
\* follows a successful attempt; the run ends fatally exactly when all
\* 1 + retries attempts failed; nothing is written before every network was
\* processed.
C9_WriteRetried(retries) ==
  /\ Len(writes) <= 1 + retries
  /\ sleeps = IF writes = << >> THEN 0 ELSE Len(writes) - 1
  /\ \A i \in 1 .. (Len(writes) - 1) : ~writes[i]
  /\ printed <=> (writes # << >> /\ writes[Len(writes)])
  /\ printed <=> pc = "done"
  /\ pc = "fatal_write" <=>
       (Len(writes) = 1 + retries /\ ~writes[Len(writes)] /\ pc # "retry")
  /\ (pc = "retry" /\ Len(writes) < 1 + retries) => ENABLED RetryOk
  /\ writes # << >> => \A i \in NetIdx : outcome[i] # "pending"

\* C9 as stated: a failed final write is retried, up to 3 times after the
\* first attempt with a sleep before each, stopping at the first success;
\* success is printed only after a successful attempt; the run ends fatally
\* exactly when every attempt failed; the write follows the network loop.
C9_AlwaysRetried == C9_WriteRetried(MaxWriteRetries)

\* C9 amended: the same, with the retries made by the hardened main only;
\* the earlier main makes one attempt and ends fatally when it fails.
C9_HardenedRetried == C9_WriteRetried(IF hardened THEN MaxWriteRetries ELSE 0)

C9_Witness ==
  /\ hardened
  /\ pc = "done"
  /\ writes = << FALSE, FALSE, FALSE, TRUE >>
  /\ sleeps = 3
  /\ disk = Marshal(config)

\* The interval is never narrower than empty, and a search whose fetches
\* all succeed returns a height in 1..H+1 (1, with no block fetch, for H = 0).
C10_InRange ==
  /\ InLoop => high - low + 1 >= 0
  /\ (SearchDone /\ AllFetchesOk) =>
       /\ ret.height \in 1 .. (chain.head + 1)
       /\ chain.head = 0 => (ret.height = 1 /\ fetched = << >>)

\* An iteration that does not return makes the interval narrower.
C10_Shrinks == (InLoop /\ pc' = pc) => (high' - low' + 1) < (high - low + 1)

\* C10: for any head H >= 0 and any timestamps, monotone or not, the width
\* of the interval is never negative and shrinks at every iteration that
\* does not return, and with all fetches succeeding the search returns a
\* height in 1..H+1; with H = 0 it returns 1 and fetches no block.
C10_Terminates == []C10_InRange /\ [][C10_Shrinks]_vars

C10_Witness ==
  /\ SearchDone
  /\ AllFetchesOk
  /\ ~Monotone(chain)
  /\ chain.head = 4
  /\ Len(fetched) = 3
  /\ ret.height = 5

====
